---- MODULE Spec2Model ----
(***************************************************************************)
(* A model of partial-io's write side: PartialWrite (src/src/write.rs) and *)
(* PartialAsyncWrite (src/src/async_write.rs).  Both wrap a writer and, on *)
(* every write or flush, pull one PartialOp from a fused iterator and      *)
(* either forward the (possibly truncated) call or fail with a synthetic   *)
(* error.                                                                  *)
(***************************************************************************)
EXTENDS Integers, Sequences, FiniteSets, TLC

\* ------------------------------------------------------------------ bounds
MaxN == 2          \* largest n of a Limited(n) item
MaxBuf == 2        \* longest buffer handed to write
MaxScript == 2     \* longest script handed to a wrapper that a caller drives
MaxData == 4       \* longest input of such a caller
MaxCalls == 2      \* write, flush and set_ops calls in one run

Min(a, b) == IF a <= b THEN a ELSE b

\* ------------------------------------------------------------ values
\* io::ErrorKind values a script injects, and those the wrapped writer raises.
ErrorKind == {"WouldBlock", "Interrupted"}
InnerErrorKind == {"WouldBlock"}

\* PartialOp, as matched in write(): Limited(n), Err(err), Unlimited.
Unlimited == [op |-> "Unlimited"]
Limited(n) == [op |-> "Limited", n |-> n]
Err(kind) == [op |-> "Err", err |-> kind]
PartialOp == {Unlimited} \cup {Limited(n) : n \in 0..MaxN} \cup {Err(k) : k \in ErrorKind}

\* Option<PartialOp>::None, what Iterator::next() yields when it has nothing.
None == [op |-> "None"]

\* io::Result values.
Ok(n) == [ok |-> TRUE, n |-> n]
OkUnit == [ok |-> TRUE]
WriteMsg == "error during write, generated by partial-io"
FlushMsg == "error during flush, generated by partial-io"
InnerMsg == "error of the wrapped writer"
IoError(kind, msg) == [ok |-> FALSE, kind |-> kind, msg |-> msg]

\* ------------------------------------------------- the script's source
\* The iterator handed to new()/set_ops(): it yields the elements of rest in
\* order and then tail for ever (None for a vec, an item for iter::repeat).
\* An element of rest may itself be None: a stateful source that reports
\* "nothing" once and has more items afterwards.  nexts counts the next()
\* calls the source has received.
VecIter(items) == [rest |-> items, tail |-> None, nexts |-> 0]
RepeatIter(item) == [rest |-> <<>>, tail |-> item, nexts |-> 0]

Iter_next(it) ==
  IF it.rest /= <<>>
    THEN [item |-> Head(it.rest),
          it |-> [it EXCEPT !.rest = Tail(it.rest), !.nexts = it.nexts + 1]]
    ELSE [item |-> it.tail, it |-> [it EXCEPT !.nexts = it.nexts + 1]]

\* Iterator::fuse(): once the source has yielded None it is never asked again.
Fuse(it) == [iter |-> it, done |-> FALSE]

\* A next() that asks the source every time, as an iterator left unfused would.
Fuse_next_unfused(f) ==
  LET r == Iter_next(f.iter)
  IN  [item |-> r.item, f |-> [iter |-> r.it, done |-> FALSE]]

Fuse_next(f) ==
  IF f.done
    THEN [item |-> None, f |-> f]
    ELSE LET r == Iter_next(f.iter)
         IN  [item |-> r.item, f |-> [iter |-> r.it, done |-> (r.item = None)]]

\* make_ops(iter): boxes iter.into_iter().fuse().
make_ops(it) == Fuse(it)

\* ------------------------------------------------- the wrapped writer W
\* A writer stub that records what it is asked: data is what it has accepted,
\* writes/flushes/shutdowns count the calls, got is the slice of the last write call and
\* ret the result of its last call.  How a call ends is the environment's
\* choice c: accept at most c.n bytes, or fail with an error of kind c.kind.
W_new == [data |-> <<>>, writes |-> 0, flushes |-> 0, shutdowns |-> 0,
          got |-> <<>>, ret |-> OkUnit]

AcceptAll == [how |-> "all"]
AcceptSome(n) == [how |-> "some", n |-> n]
Fail(kind) == [how |-> "err", err |-> kind]
WriteChoice == {AcceptAll, AcceptSome(1)} \cup {Fail(k) : k \in InnerErrorKind}
FlushChoice == {AcceptAll} \cup {Fail(k) : k \in InnerErrorKind}

W_write(w, buf, c) ==
  LET res == CASE c.how = "all" -> Ok(Len(buf))
               [] c.how = "some" -> Ok(Min(c.n, Len(buf)))
               [] OTHER -> IoError(c.err, InnerMsg)
      acc == IF res.ok THEN SubSeq(buf, 1, res.n) ELSE <<>>
  IN  [w |-> [data |-> w.data \o acc, writes |-> w.writes + 1,
              flushes |-> w.flushes, shutdowns |-> w.shutdowns,
              got |-> buf, ret |-> res],
       res |-> res]

W_flush(w, c) ==
  LET res == IF c.how = "err" THEN IoError(c.err, InnerMsg) ELSE OkUnit
  IN  [w |-> [w EXCEPT !.flushes = w.flushes + 1, !.ret = res], res |-> res]

\* AsyncWrite::shutdown of the wrapped writer: Poll<(), io::Error>.
Ready == [ok |-> TRUE, ready |-> TRUE]
NotReady == [ok |-> TRUE, ready |-> FALSE]
Pending == [how |-> "notready"]
ShutdownChoice == {AcceptAll, Pending} \cup {Fail(k) : k \in InnerErrorKind}

W_shutdown(w, c) ==
  LET res == CASE c.how = "err" -> IoError(c.err, InnerMsg)
               [] c.how = "notready" -> NotReady
               [] OTHER -> Ready
  IN  [w |-> [w EXCEPT !.shutdowns = w.shutdowns + 1, !.ret = res], res |-> res]

\* ------------------------------------------------------- PartialWrite
\* struct PartialWrite { inner, ops }.
PartialWrite_new(inner, it) == [inner |-> inner, ops |-> make_ops(it)]

\* A set_ops that queues the new items behind the unconsumed old ones.
PartialWrite_set_ops_chained(self, it) ==
  [self EXCEPT !.ops = [iter |-> [rest |-> self.ops.iter.rest \o it.rest,
                                  tail |-> it.tail,
                                  nexts |-> 0],
                        done |-> FALSE]]

PartialWrite_set_ops(self, it) == [self EXCEPT !.ops = make_ops(it)]

\* Each handler yields the wrapper after the call (self), the result handed
\* to the caller (res) and the item the call consumed (item).
\* Faulty variants of write: one that ignores the item and forwards all of
\* buf, one that writes nothing once the script is exhausted, one that
\* forwards all of buf and reports the limit, one that raises the scripted
\* error only after forwarding.
PartialWrite_write_unlimited(self, buf, c) ==
  LET nx == Fuse_next(self.ops)
      r  == W_write(self.inner, buf, c)
  IN  [self |-> [inner |-> r.w, ops |-> nx.f], res |-> r.res, item |-> nx.item]

PartialWrite_write_exhausted_empty(self, buf, c) ==
  LET nx == Fuse_next(self.ops)
      op == nx.item
      len == CASE op.op = "Limited" -> Min(op.n, Len(buf))
               [] op.op = "None" -> 0
               [] OTHER -> Len(buf)
      r  == W_write(self.inner, SubSeq(buf, 1, len), c)
  IN  IF op.op = "Err"
        THEN [self |-> [inner |-> self.inner, ops |-> nx.f],
              res |-> IoError(op.err, WriteMsg), item |-> op]
        ELSE [self |-> [inner |-> r.w, ops |-> nx.f], res |-> r.res, item |-> op]

PartialWrite_write_fake(self, buf, c) ==
  LET nx == Fuse_next(self.ops)
      op == nx.item
      r  == W_write(self.inner, buf, c)
  IN  CASE op.op = "Limited" ->
             [self |-> [inner |-> r.w, ops |-> nx.f],
              res |-> Ok(Min(op.n, Len(buf))), item |-> op]
        [] op.op = "Err" ->
             [self |-> [inner |-> self.inner, ops |-> nx.f],
              res |-> IoError(op.err, WriteMsg), item |-> op]
        [] OTHER ->
             [self |-> [inner |-> r.w, ops |-> nx.f], res |-> r.res, item |-> op]

PartialWrite_write_err_after(self, buf, c) ==
  LET nx == Fuse_next(self.ops)
      op == nx.item
      len == IF op.op = "Limited" THEN Min(op.n, Len(buf)) ELSE Len(buf)
      r  == W_write(self.inner, SubSeq(buf, 1, len), c)
  IN  IF op.op = "Err"
        THEN [self |-> [inner |-> r.w, ops |-> nx.f],
              res |-> IoError(op.err, WriteMsg), item |-> op]
        ELSE [self |-> [inner |-> r.w, ops |-> nx.f], res |-> r.res, item |-> op]

\* A write that leaves a scripted error at the head of the script.
PartialWrite_write_replaying(self, buf, c) ==
  LET r == PartialWrite_write_err_after(self, buf, c)
  IN  IF r.item.op = "Err"
        THEN [self |-> self, res |-> r.res, item |-> r.item]
        ELSE r

\* A write that fails once the script has run out.
PartialWrite_write_exhausted_fails(self, buf, c) ==
  LET r == PartialWrite_write_err_after(self, buf, c)
  IN  IF r.item = None
        THEN [self |-> [inner |-> self.inner, ops |-> r.self.ops],
              res |-> IoError("Interrupted", WriteMsg), item |-> None]
        ELSE IF r.item.op = "Err"
               THEN [r EXCEPT !.self.inner = self.inner]
               ELSE r

\* A write that calls the writer once more when it returned an error.
PartialWrite_write_retrying(self, buf, c) ==
  LET nx == Fuse_next(self.ops)
      op == nx.item
      len == IF op.op = "Limited" THEN Min(op.n, Len(buf)) ELSE Len(buf)
      r  == W_write(self.inner, SubSeq(buf, 1, len), c)
      r2 == IF r.res.ok THEN r ELSE W_write(r.w, SubSeq(buf, 1, len), c)
  IN  IF op.op = "Err"
        THEN [self |-> [inner |-> self.inner, ops |-> nx.f],
              res |-> IoError(op.err, WriteMsg), item |-> op]
        ELSE [self |-> [inner |-> r2.w, ops |-> nx.f], res |-> r2.res, item |-> op]

\* A write that, limited to n bytes, forwards the last n of the buffer.
PartialWrite_write_tail(self, buf, c) ==
  LET nx == Fuse_next(self.ops)
      op == nx.item
      len == IF op.op = "Limited" THEN Min(op.n, Len(buf)) ELSE Len(buf)
      r  == W_write(self.inner, SubSeq(buf, Len(buf) - len + 1, Len(buf)), c)
  IN  IF op.op = "Err"
        THEN [self |-> [inner |-> self.inner, ops |-> nx.f],
              res |-> IoError(op.err, WriteMsg), item |-> op]
        ELSE [self |-> [inner |-> r.w, ops |-> nx.f], res |-> r.res, item |-> op]

PartialWrite_write(self, buf, c) ==
  LET nx == Fuse_next(self.ops)
      op == nx.item
  IN  CASE op.op = "Limited" ->
             LET len == Min(op.n, Len(buf))
                 r   == W_write(self.inner, SubSeq(buf, 1, len), c)
             IN  [self |-> [inner |-> r.w, ops |-> nx.f], res |-> r.res, item |-> op]
        [] op.op = "Err" ->
             [self |-> [inner |-> self.inner, ops |-> nx.f],
              res |-> IoError(op.err, WriteMsg), item |-> op]
        [] OTHER ->
             LET r == W_write(self.inner, buf, c)
             IN  [self |-> [inner |-> r.w, ops |-> nx.f], res |-> r.res, item |-> op]

\* A flush that forwards before it raises the scripted error.
PartialWrite_flush_forwarding(self, c) ==
  LET nx == Fuse_next(self.ops)
      r  == W_flush(self.inner, c)
  IN  [self |-> [inner |-> r.w, ops |-> nx.f],
       res |-> IF nx.item.op = "Err" THEN IoError(nx.item.err, FlushMsg) ELSE r.res,
       item |-> nx.item]

\* A flush that Limited(0) keeps from reaching the writer.
PartialWrite_flush_limited(self, c) ==
  LET nx == Fuse_next(self.ops)
      op == nx.item
      r  == W_flush(self.inner, c)
  IN  CASE op.op = "Err" ->
             [self |-> [inner |-> self.inner, ops |-> nx.f],
              res |-> IoError(op.err, FlushMsg), item |-> op]
        [] op = Limited(0) ->
             [self |-> [inner |-> self.inner, ops |-> nx.f], res |-> OkUnit, item |-> op]
        [] OTHER ->
             [self |-> [inner |-> r.w, ops |-> nx.f], res |-> r.res, item |-> op]

PartialWrite_flush(self, c) ==
  LET nx == Fuse_next(self.ops)
      op == nx.item
  IN  IF op.op = "Err"
        THEN [self |-> [inner |-> self.inner, ops |-> nx.f],
              res |-> IoError(op.err, FlushMsg), item |-> op]
        ELSE LET r == W_flush(self.inner, c)
             IN  [self |-> [inner |-> r.w, ops |-> nx.f], res |-> r.res, item |-> op]

\* get_ref(&self) -> &W, get_mut(&mut self) -> &mut W, into_inner(self) -> W:
\* self as the call leaves it and w, the writer the caller is handed.
PartialWrite_get_ref(self) == [self |-> self, w |-> self.inner]

\* A get_mut that takes the next item of the script on its way.
PartialWrite_get_mut_advancing(self) ==
  [self |-> [self EXCEPT !.ops = Fuse_next(self.ops).f], w |-> self.inner]

PartialWrite_get_mut(self) == [self |-> self, w |-> self.inner]

PartialWrite_into_inner(self) == self.inner

\* -------------------------------------------------- PartialAsyncWrite
\* struct PartialAsyncWrite { inner, iter: Fuse<I::IntoIter> }.
PartialAsyncWrite_new(inner, it) == [inner |-> inner, iter |-> Fuse(it)]

\* As PartialWrite's handlers, plus unpark: whether the call ran
\* task::park().unpark().
\* Variants of write that unpark on every scripted error, and on none.
PartialAsyncWrite_write_unpark_any(self, buf, c) ==
  LET r == PartialWrite_write([inner |-> self.inner, ops |-> self.iter], buf, c)
  IN  [self |-> [inner |-> r.self.inner, iter |-> r.self.ops],
       res |-> r.res, item |-> r.item, unpark |-> (r.item.op = "Err")]

PartialAsyncWrite_write_no_unpark(self, buf, c) ==
  LET r == PartialWrite_write([inner |-> self.inner, ops |-> self.iter], buf, c)
  IN  [self |-> [inner |-> r.self.inner, iter |-> r.self.ops],
       res |-> r.res, item |-> r.item, unpark |-> FALSE]

\* A write whose limit is one byte off.
PartialAsyncWrite_write_off_by_one(self, buf, c) ==
  LET nx == Fuse_next(self.iter)
      op == nx.item
      len == IF op.op = "Limited" THEN Min(op.n + 1, Len(buf)) ELSE Len(buf)
      r  == W_write(self.inner, SubSeq(buf, 1, len), c)
  IN  IF op.op = "Err"
        THEN [self |-> [inner |-> self.inner, iter |-> nx.f],
              res |-> IoError(op.err, WriteMsg), item |-> op,
              unpark |-> (op.err = "WouldBlock")]
        ELSE [self |-> [inner |-> r.w, iter |-> nx.f], res |-> r.res,
              item |-> op, unpark |-> FALSE]

PartialAsyncWrite_write(self, buf, c) ==
  LET nx == Fuse_next(self.iter)
      op == nx.item
  IN  CASE op.op = "Limited" ->
             LET len == Min(op.n, Len(buf))
                 r   == W_write(self.inner, SubSeq(buf, 1, len), c)
             IN  [self |-> [inner |-> r.w, iter |-> nx.f], res |-> r.res,
                  item |-> op, unpark |-> FALSE]
        [] op.op = "Err" ->
             [self |-> [inner |-> self.inner, iter |-> nx.f],
              res |-> IoError(op.err, WriteMsg), item |-> op,
              unpark |-> (op.err = "WouldBlock")]
        [] OTHER ->
             LET r == W_write(self.inner, buf, c)
             IN  [self |-> [inner |-> r.w, iter |-> nx.f], res |-> r.res,
                  item |-> op, unpark |-> FALSE]

\* A flush that unparks the task on Err(WouldBlock), as write does.
PartialAsyncWrite_flush_unparking(self, c) ==
  LET nx == Fuse_next(self.iter)
      op == nx.item
      r  == W_flush(self.inner, c)
  IN  IF op.op = "Err"
        THEN [self |-> [inner |-> self.inner, iter |-> nx.f],
              res |-> IoError(op.err, FlushMsg), item |-> op,
              unpark |-> (op.err = "WouldBlock")]
        ELSE [self |-> [inner |-> r.w, iter |-> nx.f], res |-> r.res,
              item |-> op, unpark |-> FALSE]

PartialAsyncWrite_flush(self, c) ==
  LET nx == Fuse_next(self.iter)
      op == nx.item
  IN  IF op.op = "Err"
        THEN [self |-> [inner |-> self.inner, iter |-> nx.f],
              res |-> IoError(op.err, FlushMsg), item |-> op, unpark |-> FALSE]
        ELSE LET r == W_flush(self.inner, c)
             IN  [self |-> [inner |-> r.w, iter |-> nx.f], res |-> r.res,
                  item |-> op, unpark |-> FALSE]

PartialAsyncWrite_get_ref(self) == [self |-> self, w |-> self.inner]

PartialAsyncWrite_get_mut(self) == [self |-> self, w |-> self.inner]

PartialAsyncWrite_into_inner(self) == self.inner

\* A shutdown that is scripted as flush is.
PartialAsyncWrite_shutdown_scripted(self, c) ==
  LET nx == Fuse_next(self.iter)
      op == nx.item
  IN  IF op.op = "Err"
        THEN [self |-> [inner |-> self.inner, iter |-> nx.f],
              res |-> IoError(op.err, FlushMsg), unpark |-> FALSE]
        ELSE LET r == W_shutdown(self.inner, c)
             IN  [self |-> [inner |-> r.w, iter |-> nx.f], res |-> r.res,
                  unpark |-> FALSE]

\* impl AsyncWrite: fn shutdown(&mut self) { self.inner.shutdown() }.
PartialAsyncWrite_shutdown(self, c) ==
  LET r == W_shutdown(self.inner, c)
  IN  [self |-> [self EXCEPT !.inner = r.w], res |-> r.res, unpark |-> FALSE]

\* ------------------------------------------------------------ inputs
\* What new()/set_ops() may be handed: a source holding at most one item so
\* far (it may be fed more while it runs, see Feed), or iter::repeat(op).
Scripts == {VecIter(<<>>)} \cup {VecIter(<<op>>) : op \in PartialOp}
             \cup {RepeatIter(op) : op \in PartialOp}

\* The bytes 1, 2, 3, ... and the buffers a caller passes: their prefixes.
Bytes(m) == [i \in 1..m |-> i]
Bufs == {Bytes(m) : m \in 0..MaxBuf}

\* Whether a source, as handed over, holds nothing but Unlimited items.
IsPlain(it) == /\ \A i \in 1..Len(it.rest) : it.rest[i] = Unlimited
               /\ it.tail \in {None, Unlimited}

\* A source that has run dry: asked now, it yields None.
IsDry(it) == it.rest = <<>> /\ it.tail = None

\* ------------------------------------------------------------- state
VARIABLES
  pw,         \* the PartialWrite under test
  paw,        \* the PartialAsyncWrite under test
  direct,     \* a writer of the same kind that is called without a wrapper
  call,       \* the last call made: its name and arguments
  pw_ret,     \* what the last call on pw returned, and the item it consumed
  paw_ret,    \* the same for paw, with whether it unparked the task
  ncalls,     \* write, flush and set_ops calls made so far
  unparks,    \* task::park().unpark() calls made so far
  wb_writes,  \* write calls on paw that consumed Err(WouldBlock) so far
  pw_plain,   \* every source pw was handed has held only Unlimited items
  paw_plain,  \* the same for paw
  data,       \* a caller's whole input
  pos,        \* how much of it the caller has written
  task,       \* the caller: "free", or where its loop or its future stands
  notified    \* whether the task has been unparked since it was last polled

vars == <<pw, paw, direct, call, pw_ret, paw_ret, ncalls, unparks, wb_writes,
          pw_plain, paw_plain, data, pos, task, notified>>

NoRet == [res |-> OkUnit, item |-> None, unpark |-> FALSE]

\* PartialWrite::new and PartialAsyncWrite::new over fresh writers.
Construct(s) ==
  /\ pw = PartialWrite_new(W_new, s)
  /\ paw = PartialAsyncWrite_new(W_new, s)
  /\ direct = W_new
  /\ call = [op |-> "new"]
  /\ pw_ret = NoRet
  /\ paw_ret = NoRet
  /\ ncalls = 0
  /\ unparks = 0
  /\ wb_writes = 0
  /\ pw_plain = IsPlain(s)
  /\ paw_plain = IsPlain(s)

Init ==
  /\ \E s \in Scripts : Construct(s)
  /\ data = <<>>
  /\ pos = 0
  /\ task = "free"
  /\ notified = FALSE

\* ------------------------------------------------------------ actions
\* The same write(buf) is issued on pw, on paw and on the bare writer, and
\* the wrapped writers answer by the same choice c.
Write(buf, c) ==
  /\ task = "free"
  /\ ncalls < MaxCalls
  /\ LET r == PartialWrite_write(pw, buf, c)
         a == PartialAsyncWrite_write(paw, buf, c)
         d == W_write(direct, buf, c)
     IN  /\ pw' = r.self
         /\ pw_ret' = [res |-> r.res, item |-> r.item, unpark |-> FALSE]
         /\ paw' = a.self
         /\ paw_ret' = [res |-> a.res, item |-> a.item, unpark |-> a.unpark]
         /\ direct' = d.w
         /\ unparks' = IF a.unpark THEN unparks + 1 ELSE unparks
         /\ notified' = (notified \/ a.unpark)
         /\ wb_writes' = IF a.item = Err("WouldBlock") THEN wb_writes + 1 ELSE wb_writes
  /\ call' = [op |-> "write", buf |-> buf, c |-> c]
  /\ ncalls' = ncalls + 1
  /\ UNCHANGED <<pw_plain, paw_plain, data, pos, task>>

Flush(c) ==
  /\ task = "free"
  /\ ncalls < MaxCalls
  /\ LET r == PartialWrite_flush(pw, c)
         a == PartialAsyncWrite_flush(paw, c)
         d == W_flush(direct, c)
     IN  /\ pw' = r.self
         /\ pw_ret' = [res |-> r.res, item |-> r.item, unpark |-> FALSE]
         /\ paw' = a.self
         /\ paw_ret' = [res |-> a.res, item |-> a.item, unpark |-> a.unpark]
         /\ direct' = d.w
         /\ unparks' = IF a.unpark THEN unparks + 1 ELSE unparks
         /\ notified' = (notified \/ a.unpark)
  /\ call' = [op |-> "flush", c |-> c]
  /\ ncalls' = ncalls + 1
  /\ UNCHANGED <<wb_writes, pw_plain, paw_plain, data, pos, task>>

\* pw.set_ops(s); PartialAsyncWrite has no set_ops and keeps its script.
SetOps(s) ==
  /\ task = "free"
  /\ ncalls < MaxCalls
  /\ pw' = PartialWrite_set_ops(pw, s)
  /\ call' = [op |-> "set_ops", it |-> s]
  /\ ncalls' = ncalls + 1
  /\ pw_plain' = (pw_plain /\ IsPlain(s))
  /\ UNCHANGED <<paw, direct, pw_ret, paw_ret, unparks, wb_writes,
                 paw_plain, data, pos, task, notified>>

\* The sources are the caller's own stateful iterators: one that has run dry
\* may come to hold a further item x, whether or not the wrapper still asks.
FeedIter(it, x) == IF IsDry(it) THEN [it EXCEPT !.rest = <<x>>] ELSE it

Feed(x) ==
  /\ task = "free"
  /\ ncalls < MaxCalls
  /\ IsDry(pw.ops.iter) \/ IsDry(paw.iter.iter)
  /\ pw' = [pw EXCEPT !.ops.iter = FeedIter(@, x)]
  /\ paw' = [paw EXCEPT !.iter.iter = FeedIter(@, x)]
  /\ pw_plain' = (pw_plain /\ (IsDry(pw.ops.iter) => x = Unlimited))
  /\ paw_plain' = (paw_plain /\ (IsDry(paw.iter.iter) => x = Unlimited))
  /\ UNCHANGED <<direct, call, pw_ret, paw_ret, ncalls, unparks, wb_writes,
                 data, pos, task, notified>>

Next ==
  \/ \E buf \in Bufs, c \in WriteChoice : Write(buf, c)
  \/ \E c \in FlushChoice : Flush(c)
  \/ \E s \in Scripts : SetOps(s)
  \/ \E x \in PartialOp : Feed(x)

Spec == Init /\ [][Next]_vars

\* ------------------------------------------------------------ callers
\* The scripts of the runs below: a vec of at most MaxScript items, or
\* iter::repeat(op).
SeqsUpTo(S, n) == UNION {[1..k -> S] : k \in 0..n}
CallerScripts == {VecIter(s) : s \in SeqsUpTo(PartialOp, MaxScript)}
                   \cup {RepeatIter(op) : op \in PartialOp}
Inputs == {Bytes(m) : m \in 0..MaxData}

\* No run below needs more calls than this unless its script never lets it end.
CallCap == MaxScript + MaxData + 1

\* What is left of the caller's input: &buf[pos..].
Remainder == SubSeq(data, pos + 1, Len(data))

\* A caller that writes to a PartialWrite over a Vec until all of its input is
\* written, going on by the count each write returns and writing the same
\* remainder again after an error.
DrainInit ==
  /\ \E s \in CallerScripts : Construct(s)
  /\ data \in Inputs
  /\ pos = 0
  /\ task = IF data = <<>> THEN "drained" ELSE "loop"
  /\ notified = FALSE

DrainWrite ==
  /\ task = "loop"
  /\ ncalls < CallCap
  /\ LET r == PartialWrite_write(pw, Remainder, AcceptAll)
         p == IF r.res.ok THEN pos + r.res.n ELSE pos
     IN  /\ pw' = r.self
         /\ pw_ret' = [res |-> r.res, item |-> r.item, unpark |-> FALSE]
         /\ pos' = p
         /\ task' = IF p = Len(data) THEN "drained" ELSE "loop"
  /\ call' = [op |-> "write", buf |-> Remainder, c |-> AcceptAll]
  /\ ncalls' = ncalls + 1
  /\ UNCHANGED <<paw, direct, paw_ret, unparks, wb_writes, pw_plain, paw_plain,
                 data, notified>>

DrainNext == DrainWrite

DrainSpec == DrainInit /\ [][DrainNext]_vars

\* The doc example of PartialAsyncWrite: write_all(partial_writer, in_data)
\* over a Cursor<Vec<u8>>, run by Core::run.  The task is polled when it has
\* been notified ("ready"); a poll writes the remainder until all is written
\* ("done"), a write fails with WouldBlock (the poll returns NotReady: the
\* task is "ready" again if it was unparked meanwhile and "parked" for good
\* if not), a write fails otherwise or writes 0 bytes ("failed").
WriteAllInit ==
  /\ \E s \in CallerScripts : Construct(s)
  /\ data \in Inputs
  /\ pos = 0
  /\ task = "ready"
  /\ notified = TRUE

WriteAllPoll ==
  /\ task = "ready"
  /\ task' = IF pos < Len(data) THEN "polling" ELSE "done"
  /\ notified' = FALSE
  /\ UNCHANGED <<pw, paw, direct, call, pw_ret, paw_ret, ncalls, unparks,
                 wb_writes, pw_plain, paw_plain, data, pos>>

WriteAllWrite ==
  /\ task = "polling"
  /\ ncalls < CallCap
  /\ LET a == PartialAsyncWrite_write(paw, Remainder, AcceptAll)
         p == IF a.res.ok THEN pos + a.res.n ELSE pos
         woken == notified \/ a.unpark
     IN  /\ paw' = a.self
         /\ paw_ret' = [res |-> a.res, item |-> a.item, unpark |-> a.unpark]
         /\ unparks' = IF a.unpark THEN unparks + 1 ELSE unparks
         /\ wb_writes' = IF a.item = Err("WouldBlock") THEN wb_writes + 1 ELSE wb_writes
         /\ notified' = woken
         /\ pos' = p
         /\ task' = CASE a.res.ok /\ a.res.n = 0 -> "failed"
                      [] a.res.ok /\ p = Len(data) -> "done"
                      [] a.res.ok -> "polling"
                      [] a.res.kind = "WouldBlock" /\ woken -> "ready"
                      [] a.res.kind = "WouldBlock" -> "parked"
                      [] OTHER -> "failed"
  /\ call' = [op |-> "write", buf |-> Remainder, c |-> AcceptAll]
  /\ ncalls' = ncalls + 1
  /\ UNCHANGED <<pw, direct, pw_ret, pw_plain, paw_plain, data>>

WriteAllNext == WriteAllPoll \/ WriteAllWrite

\* Core::run keeps turning: a task that can be polled is polled, and a poll
\* that can go on does.
WriteAllSpec == WriteAllInit /\ [][WriteAllNext]_vars /\ WF_vars(WriteAllNext)

\* ------------------------------------------------ calls in sequence
\* Both wrappers built over one finite or repeating script and given the same
\* write and flush calls, each write with the whole buffer.
FullBuf == Bytes(MaxBuf)

SeqInit ==
  /\ \E s \in CallerScripts : Construct(s)
  /\ data = <<>>
  /\ pos = 0
  /\ task = "free"
  /\ notified = FALSE

SeqNext ==
  \/ \E c \in WriteChoice : Write(FullBuf, c)
  \/ \E c \in FlushChoice : Flush(c)

SeqSpec == SeqInit /\ [][SeqNext]_vars

\* ------------------------------------------- shutdown and accessors
\* paw.shutdown(); PartialWrite has none.  The writer called without a
\* wrapper is shut down as well.
Shutdown(c) ==
  /\ task = "free"
  /\ ncalls < MaxCalls
  /\ LET a == PartialAsyncWrite_shutdown(paw, c)
         d == W_shutdown(direct, c)
     IN  /\ paw' = a.self
         /\ paw_ret' = [res |-> a.res, item |-> None, unpark |-> a.unpark]
         /\ direct' = d.w
         /\ unparks' = IF a.unpark THEN unparks + 1 ELSE unparks
         /\ notified' = (notified \/ a.unpark)
  /\ call' = [op |-> "shutdown", c |-> c]
  /\ ncalls' = ncalls + 1
  /\ UNCHANGED <<pw, pw_ret, wb_writes, pw_plain, paw_plain, data, pos, task>>

\* get_ref() on both wrappers: the call records the writers it was handed.
GetRef ==
  /\ task = "free"
  /\ ncalls < MaxCalls
  /\ LET r == PartialWrite_get_ref(pw)
         a == PartialAsyncWrite_get_ref(paw)
     IN  /\ pw' = r.self
         /\ paw' = a.self
         /\ call' = [op |-> "get_ref", pw |-> r.w, paw |-> a.w]
  /\ ncalls' = ncalls + 1
  /\ UNCHANGED <<direct, pw_ret, paw_ret, unparks, wb_writes, pw_plain,
                 paw_plain, data, pos, task, notified>>

\* get_mut() on both wrappers, and the caller writing buf to the writers
\* through the references it was handed.
GetMut(buf) ==
  /\ task = "free"
  /\ ncalls < MaxCalls
  /\ LET r == PartialWrite_get_mut(pw)
         a == PartialAsyncWrite_get_mut(paw)
     IN  /\ pw' = [r.self EXCEPT !.inner = W_write(r.w, buf, AcceptAll).w]
         /\ paw' = [a.self EXCEPT !.inner = W_write(a.w, buf, AcceptAll).w]
         /\ call' = [op |-> "get_mut", buf |-> buf, pw |-> r.w, paw |-> a.w]
  /\ direct' = W_write(direct, buf, AcceptAll).w
  /\ ncalls' = ncalls + 1
  /\ UNCHANGED <<pw_ret, paw_ret, unparks, wb_writes, pw_plain, paw_plain,
                 data, pos, task, notified>>

\* into_inner() on both wrappers: they are gone, the caller holds the writers.
IntoInner ==
  /\ task = "free"
  /\ ncalls < MaxCalls
  /\ call' = [op |-> "into_inner", pw |-> PartialWrite_into_inner(pw),
                                    paw |-> PartialAsyncWrite_into_inner(paw)]
  /\ task' = "unwrapped"
  /\ ncalls' = ncalls + 1
  /\ UNCHANGED <<pw, paw, direct, pw_ret, paw_ret, unparks, wb_writes,
                 pw_plain, paw_plain, data, pos, notified>>

AccessInit ==
  /\ \E s \in Scripts : Construct(s)
  /\ data = <<>>
  /\ pos = 0
  /\ task = "free"
  /\ notified = FALSE

AccessNext ==
  \/ \E buf \in Bufs, c \in WriteChoice : Write(buf, c)
  \/ \E c \in FlushChoice : Flush(c)
  \/ \E c \in ShutdownChoice : Shutdown(c)
  \/ GetRef
  \/ \E buf \in Bufs : GetMut(buf)
  \/ IntoInner

AccessSpec == AccessInit /\ [][AccessNext]_vars

\* ------------------------------------------------------------ claims
\* A step that is a write call, a flush call, a set_ops call.
WriteStep == ncalls' = ncalls + 1 /\ call'.op = "write"
FlushStep == ncalls' = ncalls + 1 /\ call'.op = "flush"
SetOpsStep == ncalls' = ncalls + 1 /\ call'.op = "set_ops"

\* The first n bytes of buf, as write() slices them: &buf[..min(n, len)].
Truncated(buf, n) == SubSeq(buf, 1, Min(n, Len(buf)))

\* What one more write of a slice leaves in a writer that had before.
ForwardedOnce(before, after, slice) ==
  /\ after.writes = before.writes + 1
  /\ after.flushes = before.flushes
  /\ after.got = slice
  /\ \/ ~after.ret.ok /\ after.data = before.data
     \/ /\ after.ret.ok
        /\ after.ret.n <= Len(slice)
        /\ after.data = before.data \o SubSeq(slice, 1, after.ret.n)

\* C1: a write that consumes Limited(n) passes exactly the first min(n, len)
\* bytes of buf to the wrapped writer, in one inner write call, and returns
\* that call's result unchanged; so do PartialWrite and PartialAsyncWrite.
C1_LimitedWrite ==
  [][WriteStep =>
       /\ pw_ret'.item.op = "Limited" =>
            /\ ForwardedOnce(pw.inner, pw'.inner, Truncated(call'.buf, pw_ret'.item.n))
            /\ pw_ret'.res = pw'.inner.ret
       /\ paw_ret'.item.op = "Limited" =>
            /\ ForwardedOnce(paw.inner, paw'.inner, Truncated(call'.buf, paw_ret'.item.n))
            /\ paw_ret'.res = paw'.inner.ret]_vars

\* C1's case: two writes of <<1, 2>>, the first under Limited(1) forwarded
\* <<1>>, the second under Limited(0) forwarded an empty slice and reported
\* the writer's 0.
C1_Witness ==
  /\ call.op = "write"
  /\ Len(call.buf) = 2
  /\ ncalls = 2
  /\ pw_ret.item = Limited(0)
  /\ pw.inner.got = <<>>
  /\ pw_ret.res = Ok(0)
  /\ paw_ret.res = Ok(0)
  /\ pw.inner.writes = 2
  /\ pw.inner.data = <<1>>
  /\ paw.inner.data = <<1>>
  /\ direct.data = <<1, 2, 1, 2>>

\* C2: a write that consumes Err(kind) returns an error of that kind and does
\* not call the wrapped writer: the writer is as it was before the call.
C2_ErrWrite ==
  [][WriteStep =>
       /\ pw_ret'.item.op = "Err" =>
            /\ ~pw_ret'.res.ok
            /\ pw_ret'.res.kind = pw_ret'.item.err
            /\ pw'.inner = pw.inner
       /\ paw_ret'.item.op = "Err" =>
            /\ ~paw_ret'.res.ok
            /\ paw_ret'.res.kind = paw_ret'.item.err
            /\ paw'.inner = paw.inner]_vars

\* C2's case: a write of a non-empty buffer consumed Err(Interrupted) and the
\* writer has still never been called.
C2_Witness ==
  /\ call.op = "write"
  /\ call.buf /= <<>>
  /\ pw_ret.item = Err("Interrupted")
  /\ pw_ret.res = IoError("Interrupted", WriteMsg)
  /\ paw_ret.res = IoError("Interrupted", WriteMsg)
  /\ pw.inner = W_new
  /\ paw.inner = W_new

\* The item the next call on a fused iterator f consumes, and f afterwards.
NextItem(f) ==
  CASE f.done -> None
    [] f.iter.rest /= <<>> -> Head(f.iter.rest)
    [] OTHER -> f.iter.tail
Consumed(f, g) ==
  \/ f.done /\ g = f
  \/ /\ ~f.done
     /\ g.iter.nexts = f.iter.nexts + 1
     /\ g.iter.rest = IF f.iter.rest /= <<>> THEN Tail(f.iter.rest) ELSE <<>>

\* C3: every flush consumes the next script item; when that item is Err(kind)
\* the flush fails with that kind and the wrapped writer's flush is not called.
C3_Flush ==
  [][FlushStep =>
       /\ pw_ret'.item = NextItem(pw.ops)
       /\ Consumed(pw.ops, pw'.ops)
       /\ paw_ret'.item = NextItem(paw.iter)
       /\ Consumed(paw.iter, paw'.iter)
       /\ pw_ret'.item.op = "Err" =>
            /\ pw_ret'.res = IoError(pw_ret'.item.err, FlushMsg)
            /\ pw'.inner = pw.inner
       /\ paw_ret'.item.op = "Err" =>
            /\ paw_ret'.res = IoError(paw_ret'.item.err, FlushMsg)
            /\ paw'.inner = paw.inner]_vars

\* C3's case: a flush consumed Err(Interrupted) and no flush reached the writer.
C3_Witness ==
  /\ call.op = "flush"
  /\ pw_ret.item = Err("Interrupted")
  /\ pw_ret.res = IoError("Interrupted", FlushMsg)
  /\ paw_ret.res = IoError("Interrupted", FlushMsg)
  /\ pw.inner.flushes = 0
  /\ paw.inner.flushes = 0
  /\ pw.ops.iter.nexts = 1

\* C4: once a call has been told that the script has no more items, every
\* later write or flush on that script is told the same and the source is
\* not asked again, whatever the source holds by then.
C4_StickyExhaustion ==
  [][(WriteStep \/ FlushStep) =>
       /\ pw_ret'.item = None => pw'.ops.done
       /\ paw_ret'.item = None => paw'.iter.done
       /\ pw.ops.done =>
            /\ pw_ret'.item = None
            /\ pw'.ops = pw.ops
       /\ paw.iter.done =>
            /\ paw_ret'.item = None
            /\ paw'.iter = paw.iter]_vars

\* C4's case: the second call found the script exhausted although the source,
\* asked once, holds a further item.
C4_Witness ==
  /\ ncalls = 2
  /\ call.op \in {"write", "flush"}
  /\ paw.iter.done
  /\ paw_ret.item = None
  /\ paw.iter.iter.rest /= <<>>
  /\ paw.iter.iter.nexts = 1
  /\ pw.ops.done
  /\ pw.ops.iter.rest /= <<>>
  /\ pw.ops.iter.nexts = 1

\* C5: over scripts of Unlimited items only (or empty ones) the wrapper is
\* transparent: every call returns what the same call returns on the bare
\* writer, and the wrapped writer has received exactly what the bare one has.
C5_Transparent ==
  /\ pw_plain => (pw.inner = direct /\ pw_ret.res = direct.ret)
  /\ paw_plain => (paw.inner = direct /\ paw_ret.res = direct.ret)

\* C5's case: two calls over an Unlimited-only script, one consuming an item
\* and bytes having been written.
C5_Witness ==
  /\ pw_plain
  /\ paw_plain
  /\ ncalls = 2
  /\ call.op = "write"
  /\ pw.inner.data /= <<>>
  /\ pw.ops.iter.nexts = 2
  /\ pw.inner.writes + pw.inner.flushes = 2

\* C7: whenever a write or a flush on PartialAsyncWrite consumes
\* Err(WouldBlock), the task is unparked.
C7_UnparkOnWriteAndFlush ==
  (call.op \in {"write", "flush"} /\ paw_ret.item = Err("WouldBlock")) => paw_ret.unpark

\* C8: a write on PartialAsyncWrite unparks the task exactly once when the
\* item it consumed is Err(WouldBlock), and not at all otherwise.
C8_WriteUnpark ==
  [][WriteStep =>
       /\ paw_ret'.unpark <=> (paw_ret'.item = Err("WouldBlock"))
       /\ unparks' = unparks + (IF paw_ret'.item = Err("WouldBlock") THEN 1 ELSE 0)]_vars

\* C8's case: two writes, the first consumed Err(WouldBlock) and unparked, the
\* second got a WouldBlock error from the wrapped writer and did not.
C8_Witness ==
  /\ call.op = "write"
  /\ ncalls = 2
  /\ unparks = 1
  /\ wb_writes = 1
  /\ ~paw_ret.unpark
  /\ paw_ret.res = IoError("WouldBlock", InnerMsg)

\* C9: set_ops leaves the writer alone and leaves pw with the new script
\* only: nothing of the old one remains, and the next call consumes the new
\* script's first item.
First(it) == IF it.rest /= <<>> THEN Head(it.rest) ELSE it.tail

C9_SetOps ==
  [][/\ SetOpsStep =>
          /\ pw'.inner = pw.inner
          /\ pw'.ops.iter.rest = call'.it.rest
          /\ pw'.ops.iter.tail = call'.it.tail
          /\ NextItem(pw'.ops) = First(call'.it)
     /\ ((WriteStep \/ FlushStep) /\ call.op = "set_ops" /\ ~IsDry(call.it)) =>
          pw_ret'.item = First(call.it)]_vars

\* C9's case: set_ops came while an item of the old script was unconsumed
\* (paw, still on that script, consumes it) and the call after it consumed the
\* new script's first item instead.
C9_Witness ==
  /\ ncalls = 2
  /\ call.op \in {"write", "flush"}
  /\ paw_ret.item \in PartialOp
  /\ pw_ret.item \in PartialOp
  /\ pw_ret.item /= paw_ret.item

\* A source whose every item, now and later, is Err(WouldBlock), Unlimited or
\* Limited(n) with n >= 1, and which ends.
Retryable(op) == op = Err("WouldBlock") \/ op = Unlimited \/ (op.op = "Limited" /\ op.n >= 1)
FiniteRetryable(it) ==
  /\ it.tail = None
  /\ \A i \in 1..Len(it.rest) : Retryable(it.rest[i])

\* C6: under write_all, PartialAsyncWrite over the script
\* <<Err(WouldBlock), Limited(2)>> and the input <<1, 2, 3, 4>> fails the
\* first write with WouldBlock, the sink still empty and the task unparked,
\* forwards <<1, 2>> and reports 2 in the second; the task is never left
\* parked, and over every finite script of Err(WouldBlock), Unlimited and
\* Limited(n >= 1) items (and from every state in which write_all has not
\* failed and what is left of the script is such) it ends with the whole
\* input in the sink.
C6_WriteAllCompletes ==
  /\ [][(WriteStep /\ data = <<1, 2, 3, 4>> /\ pos = 0) =>
          /\ paw.iter = Fuse(VecIter(<<Err("WouldBlock"), Limited(2)>>)) =>
               /\ paw_ret'.res = IoError("WouldBlock", WriteMsg)
               /\ paw'.inner.data = <<>>
               /\ paw_ret'.unpark
               /\ task' = "ready"
          /\ (paw.iter.iter.rest = <<Limited(2)>> /\ ~paw.iter.done) =>
               /\ paw'.inner.got = <<1, 2>>
               /\ paw_ret'.res = Ok(2)
               /\ paw'.inner.data = <<1, 2>>]_vars
  /\ [](FiniteRetryable(paw.iter.iter) => task /= "parked")
  /\ ((task /= "failed" /\ FiniteRetryable(paw.iter.iter))
        ~> (task = "done" /\ paw.inner.data = data))

\* C6's case: the input <<1, 2, 3, 4>> is written in three write calls, the
\* first of which consumed Err(WouldBlock) and unparked the task, the second
\* wrote two bytes, and the third found the script exhausted.
C6_Witness ==
  /\ task = "done"
  /\ data = <<1, 2, 3, 4>>
  /\ paw.inner.data = <<1, 2, 3, 4>>
  /\ ncalls = 3
  /\ unparks = 1
  /\ wb_writes = 1
  /\ paw.inner.writes = 2
  /\ paw.inner.got = <<3, 4>>
  /\ paw.iter.done

\* C10: over repeat(Limited(1)) every write of the remainder forwards one
\* byte and reports 1, so an input of m bytes is drained by exactly m calls
\* and the sink ends equal to the input.
C10_OneByteAtATime ==
  (task \in {"loop", "drained"} /\ pw.ops.iter.tail = Limited(1)) =>
    /\ pos = ncalls
    /\ pw.inner.writes = ncalls
    /\ pw.inner.data = SubSeq(data, 1, ncalls)
    /\ ncalls > 0 => (pw_ret.res = Ok(1) /\ pw.inner.got = <<data[ncalls]>>)
    /\ task = "drained" <=> ncalls = Len(data)
    /\ task = "drained" => pw.inner.data = data

\* C10's case: <<1, 2, 3, 4>> drained by four calls over repeat(Limited(1)).
C10_Witness ==
  /\ task = "drained"
  /\ pw.ops.iter.tail = Limited(1)
  /\ data = <<1, 2, 3, 4>>
  /\ ncalls = 4
  /\ pw.inner.writes = 4
  /\ pw.inner.data = <<1, 2, 3, 4>>

\* A step that is a shutdown, get_ref, get_mut, into_inner call.
ShutdownStep == ncalls' = ncalls + 1 /\ call'.op = "shutdown"
GetRefStep == ncalls' = ncalls + 1 /\ call'.op = "get_ref"
GetMutStep == ncalls' = ncalls + 1 /\ call'.op = "get_mut"
IntoInnerStep == ncalls' = ncalls + 1 /\ call'.op = "into_inner"

\* C11: shutdown() on a PartialAsyncWrite calls the wrapped writer's
\* shutdown() exactly once and nothing else of it, returns what that call
\* returned, leaves the script where it was (the item that governs the next
\* write or flush is the same before and after), and never unparks the task.
C11_Shutdown ==
  [][ShutdownStep =>
       /\ paw'.iter = paw.iter
       /\ NextItem(paw'.iter) = NextItem(paw.iter)
       /\ paw'.inner = W_shutdown(paw.inner, call'.c).w
       /\ paw'.inner.shutdowns = paw.inner.shutdowns + 1
       /\ paw'.inner.writes = paw.inner.writes
       /\ paw'.inner.flushes = paw.inner.flushes
       /\ paw'.inner.data = paw.inner.data
       /\ paw_ret'.res = paw'.inner.ret
       /\ paw_ret'.res = direct'.ret
       /\ ~paw_ret'.unpark
       /\ unparks' = unparks
       /\ notified' = notified]_vars

\* A shutdown was made while the script's next item was an error, and the
\* writer's own answer came back.
C11_Witness ==
  /\ call.op = "shutdown"
  /\ call.c = Pending
  /\ NextItem(paw.iter) = Err("WouldBlock")
  /\ paw_ret.res = NotReady
  /\ paw.inner.shutdowns = 1

\* C12: get_ref(), get_mut() and into_inner() hand the caller the wrapped
\* writer as the last forwarded call left it and do nothing else: the script
\* and the item that governs the next write or flush stay as they were, the
\* writer is not called (after get_mut it holds only what the caller wrote
\* through the reference), nothing is returned or unparked on their account.
C12_Accessors ==
  [][/\ (GetRefStep \/ GetMutStep \/ IntoInnerStep) =>
          /\ call'.pw = pw.inner
          /\ call'.paw = paw.inner
          /\ pw'.ops = pw.ops
          /\ paw'.iter = paw.iter
          /\ NextItem(pw'.ops) = NextItem(pw.ops)
          /\ NextItem(paw'.iter) = NextItem(paw.iter)
          /\ pw_ret' = pw_ret
          /\ paw_ret' = paw_ret
          /\ unparks' = unparks
     /\ (GetRefStep \/ IntoInnerStep) =>
          /\ pw'.inner = pw.inner
          /\ paw'.inner = paw.inner
     /\ GetMutStep =>
          /\ pw'.inner = W_write(pw.inner, call'.buf, AcceptAll).w
          /\ paw'.inner = W_write(paw.inner, call'.buf, AcceptAll).w]_vars

\* After a write cut to one byte by a script that goes on for ever,
\* into_inner handed back writers holding that byte.
C12_Witness ==
  /\ call.op = "into_inner"
  /\ call.pw.data = <<1>>
  /\ call.paw.data = <<1>>
  /\ call.pw.writes = 1
  /\ NextItem(pw.ops) = Limited(1)
  /\ task = "unwrapped"

\* C13: the script is consumed strictly in sequence, one item per call, write
\* and flush calls counted together: every call takes the item at the head of
\* what is left of the script and leaves the rest behind, whatever the call
\* returned, so no item governs two calls and none is skipped; until the
\* script has run out, the number of items taken from it is the number of
\* calls made.
C13_Sequential ==
  /\ [][(WriteStep \/ FlushStep) =>
          /\ pw_ret'.item = NextItem(pw.ops)
          /\ paw_ret'.item = NextItem(paw.iter)
          /\ Consumed(pw.ops, pw'.ops)
          /\ Consumed(paw.iter, paw'.iter)]_vars
  /\ [](/\ pw.ops.done \/ pw.ops.iter.nexts = ncalls
        /\ paw.iter.done \/ paw.iter.iter.nexts = ncalls
        /\ pw.ops.iter.nexts <= ncalls
        /\ paw.iter.iter.nexts <= ncalls)

\* Over vec![Err(WouldBlock), Limited(1)], a flush took the error and the
\* write after it was cut to one byte by the second item.
C13_Witness ==
  /\ ncalls = 2
  /\ call.op = "write"
  /\ pw_ret.item = Limited(1)
  /\ paw_ret.item = Limited(1)
  /\ pw.inner.flushes = 0
  /\ pw.inner.writes = 1
  /\ pw.inner.got = <<1>>
  /\ pw.ops.iter.nexts = 2
  /\ pw.ops.iter.rest = <<>>

C15_FlushForwarded ==
  [][FlushStep =>
       /\ pw_ret'.item.op /= "Err" =>
            /\ pw'.inner = W_flush(pw.inner, call'.c).w
            /\ pw'.inner.flushes = pw.inner.flushes + 1
            /\ pw'.inner.writes = pw.inner.writes
            /\ pw'.inner.data = pw.inner.data
            /\ pw_ret'.res = W_flush(pw.inner, call'.c).res
            /\ pw_ret'.res = pw'.inner.ret
       /\ paw_ret'.item.op /= "Err" =>
            /\ paw'.inner = W_flush(paw.inner, call'.c).w
            /\ paw'.inner.flushes = paw.inner.flushes + 1
            /\ paw'.inner.writes = paw.inner.writes
            /\ paw'.inner.data = paw.inner.data
            /\ paw_ret'.res = W_flush(paw.inner, call'.c).res
            /\ paw_ret'.res = paw'.inner.ret]_vars

\* A flush consumed Limited(0) and the writer's flush error came back from
\* its one call.
C15_Witness ==
  /\ call.op = "flush"
  /\ call.c = Fail("WouldBlock")
  /\ pw_ret.item = Limited(0)
  /\ paw_ret.item = Limited(0)
  /\ pw.inner.flushes = 1
  /\ paw.inner.flushes = 1
  /\ pw_ret.res = IoError("WouldBlock", InnerMsg)
  /\ paw_ret.res = IoError("WouldBlock", InnerMsg)

\* A script that has handed out all of its items.
Exhausted(f) == f.done \/ IsDry(f.iter)

\* C16: once a finite script of k items has been used up by k calls, every
\* later write forwards its whole buffer in one call and every later flush
\* forwards the flush, each returning the writer's result as it is: no item,
\* no scripted error, no truncation; and the script stays used up.
C16_PassThroughAfterScript ==
  [][/\ (WriteStep /\ Exhausted(pw.ops)) =>
          /\ pw_ret'.item = None
          /\ ForwardedOnce(pw.inner, pw'.inner, call'.buf)
          /\ pw'.inner = W_write(pw.inner, call'.buf, call'.c).w
          /\ pw_ret'.res = W_write(pw.inner, call'.buf, call'.c).res
     /\ (WriteStep /\ Exhausted(paw.iter)) =>
          /\ paw_ret'.item = None
          /\ ForwardedOnce(paw.inner, paw'.inner, call'.buf)
          /\ paw'.inner = W_write(paw.inner, call'.buf, call'.c).w
          /\ paw_ret'.res = W_write(paw.inner, call'.buf, call'.c).res
          /\ ~paw_ret'.unpark
     /\ (FlushStep /\ Exhausted(pw.ops)) =>
          /\ pw_ret'.item = None
          /\ pw'.inner = W_flush(pw.inner, call'.c).w
          /\ pw_ret'.res = W_flush(pw.inner, call'.c).res
     /\ (FlushStep /\ Exhausted(paw.iter)) =>
          /\ paw_ret'.item = None
          /\ paw'.inner = W_flush(paw.inner, call'.c).w
          /\ paw_ret'.res = W_flush(paw.inner, call'.c).res
          /\ ~paw_ret'.unpark
     /\ Exhausted(pw.ops) => Exhausted(pw'.ops)
     /\ Exhausted(paw.iter) => Exhausted(paw'.iter)]_vars

\* Over vec![Limited(1)], the first write was cut to one byte and the second
\* passed the whole buffer on.
C16_Witness ==
  /\ ncalls = 2
  /\ call.op = "write"
  /\ call.c = AcceptAll
  /\ pw_ret.item = None
  /\ paw_ret.item = None
  /\ pw.inner.data = <<1>> \o FullBuf
  /\ paw.inner.data = <<1>> \o FullBuf
  /\ pw_ret.res = Ok(Len(FullBuf))
  /\ pw.ops.done

\* C17: when the wrapped writer answers a forwarded write (truncated or not)
\* or a forwarded flush with an error, the caller gets that very error, not
\* a scripted one; the writer was called once and not again, nothing was
\* written, and the item the call took stays taken.
C17_InnerError ==
  [][/\ (WriteStep /\ call'.c.how = "err" /\ pw_ret'.item.op /= "Err") =>
          /\ pw_ret'.res = IoError(call'.c.err, InnerMsg)
          /\ pw_ret'.res = pw'.inner.ret
          /\ pw'.inner.writes = pw.inner.writes + 1
          /\ pw'.inner.data = pw.inner.data
          /\ pw_ret'.item = NextItem(pw.ops)
          /\ Consumed(pw.ops, pw'.ops)
     /\ (WriteStep /\ call'.c.how = "err" /\ paw_ret'.item.op /= "Err") =>
          /\ paw_ret'.res = IoError(call'.c.err, InnerMsg)
          /\ paw_ret'.res = paw'.inner.ret
          /\ paw'.inner.writes = paw.inner.writes + 1
          /\ paw'.inner.data = paw.inner.data
          /\ paw_ret'.item = NextItem(paw.iter)
          /\ Consumed(paw.iter, paw'.iter)
          /\ ~paw_ret'.unpark
     /\ (FlushStep /\ call'.c.how = "err" /\ pw_ret'.item.op /= "Err") =>
          /\ pw_ret'.res = IoError(call'.c.err, InnerMsg)
          /\ pw_ret'.res = pw'.inner.ret
          /\ pw'.inner.flushes = pw.inner.flushes + 1
          /\ pw'.inner.writes = pw.inner.writes
          /\ Consumed(pw.ops, pw'.ops)
     /\ (FlushStep /\ call'.c.how = "err" /\ paw_ret'.item.op /= "Err") =>
          /\ paw_ret'.res = IoError(call'.c.err, InnerMsg)
          /\ paw_ret'.res = paw'.inner.ret
          /\ paw'.inner.flushes = paw.inner.flushes + 1
          /\ paw'.inner.writes = paw.inner.writes
          /\ Consumed(paw.iter, paw'.iter)
          /\ ~paw_ret'.unpark]_vars

\* Over vec![Limited(1), Unlimited], the writer refused the one byte it was
\* handed: its error came back after one call and the script moved on.
C17_Witness ==
  /\ ncalls = 1
  /\ call.op = "write"
  /\ call.c = Fail("WouldBlock")
  /\ pw_ret.item = Limited(1)
  /\ paw_ret.item = Limited(1)
  /\ pw_ret.res = IoError("WouldBlock", InnerMsg)
  /\ paw_ret.res = IoError("WouldBlock", InnerMsg)
  /\ pw.inner.writes = 1
  /\ pw.inner.got = <<1>>
  /\ pw.inner.data = <<>>
  /\ NextItem(pw.ops) = Unlimited
  /\ ~paw_ret.unpark

Reported(res) == IF res.ok THEN res.n ELSE 0

\* C19: whatever the script, while the caller goes on by the count each write
\* returns and writes the same remainder again after an error, the in-memory
\* sink holds exactly the first pos bytes of the caller's data, pos being the
\* sum of the counts returned so far: a prefix of the data, with no byte
\* duplicated, dropped, reordered or changed; and each write makes the sink
\* longer by exactly the count it reported, the bytes added being the next
\* bytes of the data.
C19_SinkIsPrefix ==
  /\ [](/\ pos <= Len(data)
        /\ pw.inner.data = SubSeq(data, 1, pos))
  /\ [][WriteStep =>
          /\ Len(pw'.inner.data) = Len(pw.inner.data) + Reported(pw_ret'.res)
          /\ pw'.inner.data =
               pw.inner.data \o SubSeq(call'.buf, 1, Reported(pw_ret'.res))
          /\ pos' = pos + Reported(pw_ret'.res)]_vars

\* Over a script of two items the caller has made three writes, one of them
\* failed by the script, the last passed through with the two bytes that were
\* left, and the sink holds the whole of its data.
C19_Witness ==
  /\ data = Bytes(3)
  /\ ncalls = 3
  /\ task = "drained"
  /\ pw.inner.data = data
  /\ pw.inner.writes = 2
  /\ pw_ret.item = None
  /\ pw_ret.res = Ok(2)
  /\ pw.ops.iter.nexts = 3

====
